---- MODULE Spec2Model ----
(***************************************************************************)
(* Model of testdata.py: the TestFile registry, its accessor get_file, the *)
(* routine download_samplefile and the path resolver prepare_dst_path.     *)
(*                                                                         *)
(* The filesystem is the shared state: a set of directories and a map from *)
(* file paths to file contents.  A path is a sequence of names, a name is  *)
(* a record of its stem and its suffix (pathlib's Path.stem, Path.suffix). *)
(* Every filesystem or library call of download_samplefile is one step of  *)
(* the calling thread, labelled by the source line it starts at.           *)
(***************************************************************************)
EXTENDS Naturals, Sequences, FiniteSets, TLC

VARIABLES
    dirs,       \* the directories that exist
    files,      \* file path -> content, for the files that exist
    pc,         \* per caller: position in get_file / download_samplefile
    kind,       \* per caller: "get_file" or "download_samplefile"
    args,       \* per caller: download_url, download_suffix, dst_name, dst_dir
    tmp_path,   \* per caller: the local variable tmp_path (<<>> when unset)
    exc,        \* per caller: an exception is propagating to the finally block
    outcome,    \* per caller: how download_samplefile ended ("none" while running)
    result,     \* per caller: the path download_samplefile returned (<<>> if none)
    route,      \* per caller: branch taken: "none", "cache", "direct", "unpack"
    netio,      \* per caller: urlretrieve invocations of the current call
    ops,        \* per caller: relocation operations invoked by the current call
    prev,       \* the last call that completed (for consecutive-call properties)
    calls       \* number of calls started

vars == <<dirs, files, pc, kind, args, tmp_path, exc, outcome, result, route,
          netio, ops, prev, calls>>

-----------------------------------------------------------------------------
(* Bounds *)

MaxCalls == 2

Procs == {1, 2}

MainThread == CHOOSE p \in Procs : \A q \in Procs : p <= q

-----------------------------------------------------------------------------
(* Names and paths (pathlib) *)

Nm(stem, suffix) == [stem |-> stem, suffix |-> suffix]

Parent(path) == SubSeq(path, 1, Len(path) - 1)

Join(dir, name) == Append(dir, name)

IsUnder(path, dir) ==
    /\ Len(path) >= Len(dir)
    /\ SubSeq(path, 1, Len(dir)) = dir

\* the directory itself and all its ancestors (mkdir(parents=True))
WithParents(dir) == {SubSeq(dir, 1, n) : n \in 1..Len(dir)}

\* str.lower() on the suffixes that occur
Lower(s) ==
    CASE s = ".ZIP" -> ".zip"
      [] s = ".GPKG" -> ".gpkg"
      [] s = ".SHP" -> ".shp"
      [] OTHER -> s

-----------------------------------------------------------------------------
(* File contents *)

ZipContent(members) == [kind |-> "zip", members |-> members]

DataContent == [kind |-> "data", members |-> {}]

PartialContent == [kind |-> "partial", members |-> {}]

\* relative paths of the geo-files an archive served by the remote host may hold
Members ==
    << <<Nm("Lbgbrprc", ".shp")>>,
       <<Nm("Shapefile", ""), Nm("Lbgbrprc", ".gpkg")>>,
       <<Nm("ndvi", ".tif")>> >>

GeoSuffixes == <<".shp", ".gpkg", ".tif">>

\* the archives considered: those holding one geo-file, and those holding the
\* first n of Members (none, one, two or three geo-files)
Archives ==
    {{Members[i]} : i \in 1..Len(Members)}
        \cup {{Members[i] : i \in 1..n} : n \in 0..Len(Members)}

-----------------------------------------------------------------------------
(* The registry and the arguments of a call *)

TempDir == <<Nm("systmp", "")>>

DataDir == <<Nm("data", "")>>

NoDir == [given |-> FALSE, path |-> <<>>]

SomeDir(d) == [given |-> TRUE, path |-> d]

Descriptor(url, suffix, name) ==
    [download_url |-> url, download_suffix |-> suffix, dst_name |-> name]

AGRIPRC_2018 == Descriptor("agriprc_2018_url", ".zip", Nm("agriprc_2018", ".gpkg"))

AGRIPRC_2019 == Descriptor("agriprc_2019_url", ".zip", Nm("agriprc_2019", ".gpkg"))

S2_NDVI_2020 == Descriptor("s2_ndvi_2020_url", ".zip", Nm("s2_ndvi_2020", ".tif"))

TestFile == {AGRIPRC_2018, AGRIPRC_2019, S2_NDVI_2020}

\* further argument tuples a direct caller of download_samplefile may pass
OtherArgs ==
    { Descriptor("gpkg_url", ".GPKG", Nm("agriprc_2018", ".gpkg")),
      Descriptor("shp_url", ".SHP", Nm("agriprc_2018", ".gpkg")) }

DstDirs == {NoDir, SomeDir(DataDir)}

-----------------------------------------------------------------------------
(* prepare_dst_path and the paths download_samplefile derives *)

prepare_dst_path(dst_name, dst_dir) ==
    IF ~dst_dir.given
    THEN Join(Join(TempDir, Nm("geofileops_sampledata", "")), dst_name)
    ELSE Join(dst_dir.path, dst_name)

DstPath(a) == prepare_dst_path(a.dst_name, a.dst_dir)

TmpDir_PerName(dst_path) ==
    Join(Parent(dst_path), Nm(dst_path[Len(dst_path)].stem, ".tmp"))

TmpDir(dst_path) == Join(Parent(dst_path), Nm("tmp", ""))

\* tmp_dir / f"{dst_path.stem}{download_suffix.lower()}"
DownloadPath(dst_path, download_suffix) ==
    Join(TmpDir(dst_path), Nm(dst_path[Len(dst_path)].stem, Lower(download_suffix)))

\* dst_path.parent / tmp_path.stem
UnzipDir(dst_path, tpath) == Join(Parent(dst_path), Nm(tpath[Len(tpath)].stem, ""))

CacheHit_Never(fs, dst_path) == FALSE

CacheHit(fs, dst_path) == dst_path \in DOMAIN fs

IsDirect_CaseSensitive(download_suffix, dst_path) ==
    download_suffix = dst_path[Len(dst_path)].suffix

IsDirect(download_suffix, dst_path) ==
    Lower(download_suffix) = Lower(dst_path[Len(dst_path)].suffix)

-----------------------------------------------------------------------------
(* Filesystem operations *)

\* restriction of a file map to the paths in keep
Restrict(fs, keep) == [p \in keep |-> fs[p]]

WriteFile(fs, path, content) ==
    [p \in DOMAIN fs \cup {path} |-> IF p = path THEN content ELSE fs[p]]

RmTreeDirs(ds, dir) == {d \in ds : ~IsUnder(d, dir)}

RmTreeFiles_Keep(fs, dir) == fs

RmTreeFiles(fs, dir) == Restrict(fs, {p \in DOMAIN fs : ~IsUnder(p, dir)})

\* zip_ref.extractall(target): every member is written below target
ExtractDirs(ds, target, members) ==
    ds \cup WithParents(target)
       \cup UNION {WithParents(Parent(target \o m)) : m \in members}

ExtractFiles(fs, target, members) ==
    [p \in DOMAIN fs \cup {target \o m : m \in members} |->
        IF \E m \in members : p = target \o m THEN DataContent ELSE fs[p]]

\* unzippedzip_dir.rglob(f"*{suffix}")
RGlob(fs, dir, suffix) ==
    {p \in DOMAIN fs : IsUnder(p, dir) /\ Len(p) > Len(dir) /\ p[Len(p)].suffix = suffix}

\* all matches, over the three suffixes
FoundPaths(fs, dir) ==
    UNION {RGlob(fs, dir, GeoSuffixes[i]) : i \in 1..Len(GeoSuffixes)}

\* the paths tmp_paths[0] can be: a match of the first suffix that has any
FirstCandidates(fs, dir) ==
    LET i == CHOOSE j \in 1..Len(GeoSuffixes) :
                 /\ RGlob(fs, dir, GeoSuffixes[j]) # {}
                 /\ \A k \in 1..(j - 1) : RGlob(fs, dir, GeoSuffixes[k]) = {}
    IN RGlob(fs, dir, GeoSuffixes[i])

AcceptCount_AtLeastOne(n) == n >= 1

AcceptCount(n) == n \in {1, 2}

RelocateOp_NoRasterCase(dst_suffix, tmp_suffix) ==
    IF dst_suffix = tmp_suffix THEN "gfo.move" ELSE "gfo.makevalid"

\* which of the three operations lines 145-152 invoke
RelocateOp(dst_suffix, tmp_suffix) ==
    IF dst_suffix = tmp_suffix
    THEN IF dst_suffix = ".tif" THEN "shutil.move" ELSE "gfo.move"
    ELSE "gfo.makevalid"

\* gfo.is_geofile: the path has the suffix of a vector geo-file
IsGeofile(path) == Lower(path[Len(path)].suffix) \in {".gpkg", ".shp"}

-----------------------------------------------------------------------------
(* Initial state *)

EmptyFs == [p \in {} |-> DataContent]

NoArgs ==
    [download_url |-> "", download_suffix |-> "", dst_name |-> Nm("", ""),
     dst_dir |-> NoDir]

NoPrev == [kind |-> "none", args |-> NoArgs, pc |-> "none", result |-> <<>>]

\* the directories a destination can live in
DstParents == {Parent(prepare_dst_path(Nm("x", ""), d)) : d \in DstDirs}

StaleFile(parent) == Join(TmpDir(Join(parent, Nm("x", ""))), Nm("old", ".zip"))

\* the platform's temp directory exists; any destination directory may hold
\* a scratch directory left behind by an earlier, interrupted run
Init ==
    \E stale \in {{}, DstParents} :
        /\ dirs = {TempDir} \cup UNION {WithParents(Parent(StaleFile(d))) : d \in stale}
        /\ files = [f \in {StaleFile(d) : d \in stale} |-> PartialContent]
        /\ pc = [p \in Procs |-> "idle"]
        /\ kind = [p \in Procs |-> "none"]
        /\ args = [p \in Procs |-> NoArgs]
        /\ tmp_path = [p \in Procs |-> <<>>]
        /\ exc = [p \in Procs |-> FALSE]
        /\ outcome = [p \in Procs |-> "none"]
        /\ result = [p \in Procs |-> <<>>]
        /\ route = [p \in Procs |-> "none"]
        /\ netio = [p \in Procs |-> 0]
        /\ ops = [p \in Procs |-> <<>>]
        /\ prev = NoPrev
        /\ calls = 0

-----------------------------------------------------------------------------
(* Actions *)

\* where the caller continues once download_samplefile has ended with `how`
AfterDownload(p, how) ==
    IF kind[p] = "get_file" /\ how = "returned" THEN "L63" ELSE how

\* a call of TestFile.get_file or of download_samplefile begins
Start(p) ==
    /\ pc[p] = "idle"
    /\ calls < MaxCalls
    /\ \E k \in {"get_file", "download_samplefile"}, d \in DstDirs :
         \E a \in (IF k = "get_file" THEN TestFile ELSE OtherArgs) :
            /\ kind' = [kind EXCEPT ![p] = k]
            /\ args' = [args EXCEPT ![p] =
                   [download_url |-> a.download_url,
                    download_suffix |-> a.download_suffix,
                    dst_name |-> a.dst_name, dst_dir |-> d]]
    /\ pc' = [pc EXCEPT ![p] = "L96"]
    /\ calls' = calls + 1
    /\ UNCHANGED <<dirs, files, tmp_path, exc, outcome, result, route, netio, ops, prev>>

\* single-threaded use: a call begins only when no other call is in progress
SeqStart(p) ==
    /\ p = MainThread
    /\ \A q \in Procs \ {p} : pc[q] = "idle"
    /\ Start(p)

\* lines 96-99: resolve the destination, return it if it exists
CheckCache(p) ==
    /\ pc[p] = "L96"
    /\ IF CacheHit(files, DstPath(args[p]))
       THEN /\ route' = [route EXCEPT ![p] = "cache"]
            /\ result' = [result EXCEPT ![p] = DstPath(args[p])]
            /\ outcome' = [outcome EXCEPT ![p] = "returned"]
            /\ pc' = [pc EXCEPT ![p] = AfterDownload(p, "returned")]
       ELSE /\ pc' = [pc EXCEPT ![p] = "L101"]
            /\ UNCHANGED <<route, result, outcome>>
    /\ UNCHANGED <<dirs, files, kind, args, tmp_path, exc, netio, ops, prev, calls>>

\* lines 101-105: create the destination directory, compare the suffixes
MkParent(p) ==
    /\ pc[p] = "L101"
    /\ dirs' = dirs \cup WithParents(Parent(DstPath(args[p])))
    /\ IF IsDirect(args[p].download_suffix, DstPath(args[p]))
       THEN /\ route' = [route EXCEPT ![p] = "direct"]
            /\ pc' = [pc EXCEPT ![p] = "L107"]
       ELSE /\ route' = [route EXCEPT ![p] = "unpack"]
            /\ pc' = [pc EXCEPT ![p] = "L115"]
    /\ UNCHANGED <<files, kind, args, tmp_path, exc, outcome, result, netio, ops, prev, calls>>

\* lines 106-108: urlretrieve straight to the destination.  urlretrieve opens
\* the target file once the connection is up and raises if the transfer
\* breaks off, leaving what it has written.
DirectDownload(p) ==
    /\ pc[p] = "L107"
    /\ netio' = [netio EXCEPT ![p] = @ + 1]
    /\ \E o \in {"ok", "refused", "truncated"} :
         /\ files' = CASE o = "ok" -> WriteFile(files, DstPath(args[p]), DataContent)
                       [] o = "refused" -> files
                       [] o = "truncated" -> WriteFile(files, DstPath(args[p]), PartialContent)
         /\ outcome' = [outcome EXCEPT ![p] = IF o = "ok" THEN "returned" ELSE "raised"]
         /\ result' = [result EXCEPT ![p] = IF o = "ok" THEN DstPath(args[p]) ELSE <<>>]
         /\ pc' = [pc EXCEPT ![p] = AfterDownload(p, IF o = "ok" THEN "returned" ELSE "raised")]
    /\ UNCHANGED <<dirs, kind, args, tmp_path, exc, route, ops, prev, calls>>

\* lines 112-116: remove the scratch directory if it exists already
RemoveStale(p) ==
    /\ pc[p] = "L115"
    /\ LET tmp_dir == TmpDir(DstPath(args[p])) IN
         IF tmp_dir \in dirs
         THEN /\ dirs' = RmTreeDirs(dirs, tmp_dir)
              /\ files' = RmTreeFiles(files, tmp_dir)
         ELSE UNCHANGED <<dirs, files>>
    /\ pc' = [pc EXCEPT ![p] = "L117"]
    /\ UNCHANGED <<kind, args, tmp_path, exc, outcome, result, route, netio, ops, prev, calls>>

\* line 117: create the scratch directory
MkTmp(p) ==
    /\ pc[p] = "L117"
    /\ dirs' = dirs \cup WithParents(TmpDir(DstPath(args[p])))
    /\ pc' = [pc EXCEPT ![p] = "L120"]
    /\ UNCHANGED <<files, kind, args, tmp_path, exc, outcome, result, route, netio, ops, prev, calls>>

\* lines 120-125: urlretrieve into the scratch directory, then branch on .zip
ScratchDownload(p) ==
    /\ pc[p] = "L120"
    /\ LET tp == DownloadPath(DstPath(args[p]), args[p].download_suffix)
           contents == IF tp[Len(tp)].suffix = ".zip"
                       THEN {ZipContent(ms) : ms \in Archives}
                       ELSE {DataContent}
       IN /\ tmp_path' = [tmp_path EXCEPT ![p] = tp]
          /\ netio' = [netio EXCEPT ![p] = @ + 1]
          /\ \/ /\ Parent(tp) \in dirs
                /\ \E c \in contents : files' = WriteFile(files, tp, c)
                /\ pc' = [pc EXCEPT ![p] = IF tp[Len(tp)].suffix = ".zip" THEN "L129" ELSE "L144"]
                /\ UNCHANGED exc
             \/ /\ Parent(tp) \in dirs
                /\ files' = WriteFile(files, tp, PartialContent)
                /\ exc' = [exc EXCEPT ![p] = TRUE]
                /\ pc' = [pc EXCEPT ![p] = "L153"]
             \/ /\ UNCHANGED files
                /\ exc' = [exc EXCEPT ![p] = TRUE]
                /\ pc' = [pc EXCEPT ![p] = "L153"]
    /\ UNCHANGED <<dirs, kind, args, outcome, result, route, ops, prev, calls>>

\* lines 127-130: extract the archive
Unzip(p) ==
    /\ pc[p] = "L129"
    /\ LET target == UnzipDir(DstPath(args[p]), tmp_path[p]) IN
         \/ /\ tmp_path[p] \in DOMAIN files
            /\ files[tmp_path[p]].kind = "zip"
            /\ dirs' = ExtractDirs(dirs, target, files[tmp_path[p]].members)
            /\ files' = ExtractFiles(files, target, files[tmp_path[p]].members)
            /\ pc' = [pc EXCEPT ![p] = "L133"]
            /\ UNCHANGED exc
         \/ /\ tmp_path[p] \in DOMAIN files
            /\ files[tmp_path[p]].kind = "zip"
            /\ dirs' = ExtractDirs(dirs, target, {})
            /\ UNCHANGED files
            /\ exc' = [exc EXCEPT ![p] = TRUE]
            /\ pc' = [pc EXCEPT ![p] = "L153"]
         \/ /\ ~(tmp_path[p] \in DOMAIN files /\ files[tmp_path[p]].kind = "zip")
            /\ UNCHANGED <<dirs, files>>
            /\ exc' = [exc EXCEPT ![p] = TRUE]
            /\ pc' = [pc EXCEPT ![p] = "L153"]
    /\ UNCHANGED <<kind, args, tmp_path, outcome, result, route, netio, ops, prev, calls>>

\* lines 132-142: look for the geo-files, accept one or two
Select(p) ==
    /\ pc[p] = "L133"
    /\ LET target == UnzipDir(DstPath(args[p]), tmp_path[p])
           tmp_paths == FoundPaths(files, target)
       IN IF AcceptCount(Cardinality(tmp_paths))
          THEN /\ \E t \in FirstCandidates(files, target) :
                    tmp_path' = [tmp_path EXCEPT ![p] = t]
               /\ pc' = [pc EXCEPT ![p] = "L144"]
               /\ UNCHANGED exc
          ELSE /\ exc' = [exc EXCEPT ![p] = TRUE]
               /\ pc' = [pc EXCEPT ![p] = "L153"]
               /\ UNCHANGED tmp_path
    /\ UNCHANGED <<dirs, files, kind, args, outcome, result, route, netio, ops, prev, calls>>

\* lines 144-152: move or convert the working file to the destination
Relocate(p) ==
    /\ pc[p] = "L144"
    /\ LET dst_path == DstPath(args[p])
           op == RelocateOp(dst_path[Len(dst_path)].suffix,
                            tmp_path[p][Len(tmp_path[p])].suffix)
       IN IF dst_path = tmp_path[p]
          THEN UNCHANGED <<files, ops, exc>>
          ELSE /\ ops' = [ops EXCEPT ![p] = Append(@, op)]
               /\ \/ /\ tmp_path[p] \in DOMAIN files
                     /\ files' =
                          IF op = "gfo.makevalid"
                          THEN WriteFile(files, dst_path, DataContent)
                          ELSE Restrict(WriteFile(files, dst_path, files[tmp_path[p]]),
                                        (DOMAIN files \cup {dst_path}) \ {tmp_path[p]})
                     /\ UNCHANGED exc
                  \/ /\ UNCHANGED files
                     /\ exc' = [exc EXCEPT ![p] = TRUE]
    /\ pc' = [pc EXCEPT ![p] = "L153"]
    /\ UNCHANGED <<dirs, kind, args, tmp_path, outcome, result, route, netio, prev, calls>>

FinallyDirs_NoCleanup(ds, tmp_dir) == ds

\* lines 154-155, on the directories
FinallyDirs(ds, tmp_dir) == IF tmp_dir \in ds THEN RmTreeDirs(ds, tmp_dir) ELSE ds

\* lines 153-157: remove the scratch directory, then return or re-raise
Finally(p) ==
    /\ pc[p] = "L153"
    /\ LET tmp_dir == TmpDir(DstPath(args[p])) IN
         /\ dirs' = FinallyDirs(dirs, tmp_dir)
         /\ files' = IF tmp_dir \in dirs THEN RmTreeFiles(files, tmp_dir) ELSE files
    /\ outcome' = [outcome EXCEPT ![p] = IF exc[p] THEN "raised" ELSE "returned"]
    /\ result' = [result EXCEPT ![p] = IF exc[p] THEN <<>> ELSE DstPath(args[p])]
    /\ pc' = [pc EXCEPT ![p] = AfterDownload(p, IF exc[p] THEN "raised" ELSE "returned")]
    /\ UNCHANGED <<kind, args, tmp_path, exc, route, netio, ops, prev, calls>>

\* lines 63-69 of get_file: read the layer info of a geo-file, return the path
Inspect(p) ==
    /\ pc[p] = "L63"
    /\ \/ pc' = [pc EXCEPT ![p] = "returned"]
       \/ /\ IsGeofile(result[p])
          /\ pc' = [pc EXCEPT ![p] = "raised"]
    /\ UNCHANGED <<dirs, files, kind, args, tmp_path, exc, outcome, result, route, netio, ops, prev, calls>>

\* the caller takes the result (or the exception); the call is over
Return(p) ==
    /\ pc[p] \in {"returned", "raised"}
    /\ prev' = [kind |-> kind[p], args |-> args[p], pc |-> pc[p], result |-> result[p]]
    /\ pc' = [pc EXCEPT ![p] = "idle"]
    /\ kind' = [kind EXCEPT ![p] = "none"]
    /\ args' = [args EXCEPT ![p] = NoArgs]
    /\ tmp_path' = [tmp_path EXCEPT ![p] = <<>>]
    /\ exc' = [exc EXCEPT ![p] = FALSE]
    /\ outcome' = [outcome EXCEPT ![p] = "none"]
    /\ result' = [result EXCEPT ![p] = <<>>]
    /\ route' = [route EXCEPT ![p] = "none"]
    /\ netio' = [netio EXCEPT ![p] = 0]
    /\ ops' = [ops EXCEPT ![p] = <<>>]
    /\ UNCHANGED <<dirs, files, calls>>

\* the steps of a call in progress
Call(p) ==
    \/ CheckCache(p)
    \/ MkParent(p)
    \/ DirectDownload(p)
    \/ RemoveStale(p)
    \/ MkTmp(p)
    \/ ScratchDownload(p)
    \/ Unzip(p)
    \/ Select(p)
    \/ Relocate(p)
    \/ Finally(p)
    \/ Inspect(p)

\* the module as written: one thread, one call after the other
Next == \E p \in Procs : SeqStart(p) \/ Call(p) \/ Return(p)

Spec == Init /\ [][Next]_vars

\* two threads, each making one call, without coordination
ConcNext == \E p \in Procs : Start(p) \/ Call(p)

ConcSpec == Init /\ [][ConcNext]_vars

-----------------------------------------------------------------------------
(* Properties *)

Dst(p) == DstPath(args[p])

Scratch(p) == TmpDir(Dst(p))

Suffix(path) == path[Len(path)].suffix

\* download_samplefile has returned or raised for caller p
Ended(p) == outcome[p] # "none"

\* caller p takes a step
Steps(p) == pc'[p] # pc[p]

UnpackPcs == {"L115", "L117", "L120", "L129", "L133", "L144", "L153"}

C2_SecondCallHitsCache ==
    \A p \in Procs :
        ( /\ pc[p] = "returned"
          /\ kind[p] = "get_file"
          /\ prev.kind = "get_file"
          /\ prev.pc = "returned"
          /\ prev.args = args[p] )
        => /\ result[p] = prev.result
           /\ netio[p] = 0

\* the second of two consecutive get_file calls with the same arguments has
\* returned, the first one having downloaded the file
C2_Witness ==
    \E p \in Procs :
        /\ pc[p] = "returned"
        /\ kind[p] = "get_file"
        /\ prev.kind = "get_file"
        /\ prev.pc = "returned"
        /\ prev.args = args[p]
        /\ route[p] = "cache"

\* C3: a call that starts with no file at the destination either returns
\* with the destination file in place, or raises with no file at the
\* destination path.
C3_NoPartialSuccess ==
    \A p \in Procs :
        /\ outcome[p] = "returned" /\ route[p] # "cache" => Dst(p) \in DOMAIN files
        /\ outcome[p] = "raised" => Dst(p) \notin DOMAIN files

\* C4: the number of geo-files found under the extraction directory decides
\* the selection step: with 1 or 2 the routine goes on with one of the files
\* found as its working file; with 0 or with 3 or more it raises, and once an
\* exception propagates no relocation is invoked and no destination file
\* appears.
C4_CountDecides ==
    [][\A p \in Procs :
         /\ pc[p] = "L133" /\ Steps(p) =>
              LET found == FoundPaths(files, UnzipDir(Dst(p), tmp_path[p])) IN
                IF Cardinality(found) \in {1, 2}
                THEN /\ pc'[p] = "L144"
                     /\ tmp_path'[p] \in found
                     /\ ~exc'[p]
                ELSE /\ pc'[p] = "L153"
                     /\ exc'[p]
                     /\ tmp_path'[p] = tmp_path[p]
                     /\ files' = files
         /\ exc[p] /\ Steps(p) =>
              /\ ops'[p] = <<>> \/ ops'[p] = ops[p]
              /\ Dst(p) \in DOMAIN files' <=> Dst(p) \in DOMAIN files
         /\ exc'[p] /\ pc[p] = "L133" => ops'[p] = <<>>
      ]_vars

\* three geo-files were found under the extraction directory and the call is
\* on its way out with an exception, having relocated nothing
C4_Witness ==
    \E p \in Procs :
        /\ pc[p] = "L153"
        /\ exc[p]
        /\ ops[p] = <<>>
        /\ tmp_path[p] \in DOMAIN files
        /\ files[tmp_path[p]].kind = "zip"
        /\ Cardinality(files[tmp_path[p]].members) = 3
        /\ Cardinality(FoundPaths(files, UnzipDir(Dst(p), tmp_path[p]))) >= 3
        /\ Dst(p) \notin DOMAIN files

\* C5: on the unpack path at most one relocation operation is invoked, and
\* once line 144 has run exactly one: a plain move if the working file's
\* suffix equals the destination's and is .tif, the geo-aware move if they
\* are equal and not .tif, the make-valid/convert operation if they differ.
C5_OneRelocation ==
    \A p \in Procs :
        /\ Len(ops[p]) <= 1
        /\ pc[p] \in {"L153", "L63", "returned", "raised"} /\ route[p] = "unpack"
             /\ (~exc[p] \/ ops[p] # <<>>) =>
             ops[p] = << IF Suffix(Dst(p)) = Suffix(tmp_path[p])
                         THEN IF Suffix(Dst(p)) = ".tif"
                              THEN "shutil.move"
                              ELSE "gfo.move"
                         ELSE "gfo.makevalid" >>
        /\ route[p] # "unpack" => ops[p] = <<>>

\* the zip for s2_ndvi_2020.tif held one .tif, which was moved, not converted
C5_Witness ==
    \E p \in Procs :
        /\ args[p].dst_name = Nm("s2_ndvi_2020", ".tif")
        /\ outcome[p] = "returned"
        /\ Suffix(tmp_path[p]) = ".tif"
        /\ ops[p] = <<"shutil.move">>
        /\ tmp_path[p] \notin DOMAIN files
        /\ Dst(p) \in DOMAIN files

\* C6: when the destination file exists as the call checks it, the call
\* returns the destination path in that step and changes nothing on disk: no
\* download, no directory created or removed, no file written or moved.
C6_CacheHitChangesNothing ==
    [][\A p \in Procs :
         pc[p] = "L96" /\ Dst(p) \in DOMAIN files /\ Steps(p) =>
              /\ dirs' = dirs
              /\ files' = files
              /\ netio'[p] = 0
              /\ ops'[p] = <<>>
              /\ outcome'[p] = "returned"
              /\ result'[p] = Dst(p)
      ]_vars

\* a cache hit has returned while a stale scratch directory is still in place
C6_Witness ==
    \E p \in Procs :
        /\ route[p] = "cache"
        /\ outcome[p] = "returned"
        /\ result[p] = Dst(p)
        /\ Scratch(p) \in dirs

\* C7: when the source suffix equals the destination suffix up to case, no
\* step of the call creates the scratch directory, the call never enters the
\* unpack path, invokes no relocation, and if it returns it has downloaded
\* once and the destination file exists.
C7_DirectNeverCreatesScratch ==
    [][\A p \in Procs :
         ( /\ kind[p] # "none"
           /\ Lower(args[p].download_suffix) = Lower(Suffix(Dst(p)))
           /\ Steps(p) )
         => /\ Scratch(p) \in dirs' => Scratch(p) \in dirs
            /\ pc'[p] \notin UnpackPcs
            /\ ops'[p] = <<>>
            /\ outcome'[p] = "returned" /\ route'[p] = "direct" =>
                 /\ netio'[p] = 1
                 /\ Dst(p) \in DOMAIN files'
      ]_vars

\* a direct download whose suffixes differ in case only has returned, and no
\* scratch directory exists
C7_Witness ==
    \E p \in Procs :
        /\ route[p] = "direct"
        /\ outcome[p] = "returned"
        /\ args[p].download_suffix # Suffix(Dst(p))
        /\ Scratch(p) \notin dirs
        /\ Dst(p) \in DOMAIN files

\* caller p has downloaded into the scratch directory and has yet to read it
NeedsArtifact(p) ==
    /\ pc[p] \in {"L129", "L144"}
    /\ IsUnder(tmp_path[p], Scratch(p))

\* caller q executes a removal of an existing scratch directory (line 116 or 155)
RemovesScratch(q) ==
    /\ pc[q] \in {"L115", "L153"}
    /\ Steps(q)
    /\ Scratch(q) \in dirs

\* C8: two calls for the same destination are not kept apart: whenever one
\* removes the scratch directory (stale removal or cleanup) while the other
\* still needs the artifact it downloaded there, that artifact is deleted.
C8_SameDestinationRace ==
    [][\A p, q \in Procs :
         ( /\ p # q
           /\ kind[q] # "none"
           /\ Dst(p) = Dst(q)
           /\ NeedsArtifact(p)
           /\ tmp_path[p] \in DOMAIN files
           /\ RemovesScratch(q) )
         => tmp_path[p] \notin DOMAIN files'
      ]_vars

\* a caller is about to extract its archive, which the other caller for the
\* same destination has deleted
C8_Witness ==
    \E p, q \in Procs :
        /\ p # q
        /\ kind[q] # "none"
        /\ Dst(p) = Dst(q)
        /\ pc[p] = "L129"
        /\ NeedsArtifact(p)
        /\ tmp_path[p] \notin DOMAIN files

\* C9: the archive is extracted into a sibling of the downloaded archive,
\* inside the scratch directory, so every file found after extraction lies
\* in the scratch directory.
C9_ExtractionInsideScratch ==
    \A p \in Procs :
        pc[p] = "L133" =>
            LET target == UnzipDir(Dst(p), tmp_path[p]) IN
              /\ Parent(target) = Parent(tmp_path[p])
              /\ \A f \in FoundPaths(files, target) : IsUnder(f, Scratch(p))

\* C10: the scratch directory is a function of the destination directory
\* alone: a call for another name in the same directory that removes the
\* scratch directory deletes the artifact this call still needs, and a call
\* for another directory leaves it alone.
C10_SharedScratchAcrossNames ==
    [][\A p, q \in Procs :
         ( /\ p # q
           /\ kind[q] # "none"
           /\ args[p].dst_name # args[q].dst_name
           /\ NeedsArtifact(p)
           /\ tmp_path[p] \in DOMAIN files
           /\ RemovesScratch(q) )
         => IF Parent(Dst(p)) = Parent(Dst(q))
            THEN tmp_path[p] \notin DOMAIN files'
            ELSE tmp_path[p] \in DOMAIN files'
      ]_vars

\* a caller is about to read its download, which a call for another name in
\* the same directory has deleted
C10_Witness ==
    \E p, q \in Procs :
        /\ p # q
        /\ kind[q] # "none"
        /\ args[p].dst_name # args[q].dst_name
        /\ Parent(Dst(p)) = Parent(Dst(q))
        /\ NeedsArtifact(p)
        /\ tmp_path[p] \notin DOMAIN files

====
